---- MODULE Spec2Model ----
(***************************************************************************)
(* State-machine model of the MPU9150 driver (src/mpu9150.py): the         *)
(* interrupt-guarded register transport (_read/_write), the magnetometer   *)
(* acquisition protocol (get_mag_status, the poller closure make_magread,  *)
(* get_mag_raw) and the raw accelerometer/gyroscope reads.                 *)
(*                                                                         *)
(* One action is one call of a driver method.  The outcome of every bus    *)
(* transaction the call makes (bytes returned, or OSError) is an input of  *)
(* the action.  The variables call/bus/ret record the last call, the bus   *)
(* transactions it made and what it handed back to its caller.             *)
(***************************************************************************)
EXTENDS Integers, Sequences, FiniteSets

\* ---------------------------------------------------------------- bounds
\* Number of distinct poller closures the caller holds at one time.
MaxPollers == 2
\* Largest number of "not ready" status reads one blocking get_mag_raw sees.
MaxSpin == 2

\* ------------------------------------------------------------- constants
mpu_addr == 104
mag_addr == 12
MAG_CNTL == 10
MAG_ST1 == 2
MAG_DATA == 3
ACCEL_DATA == 59
GYRO_DATA == 67
MAG_TRIGGER == 1
DRDY == 1

Pollers == 1..MaxPollers

VARIABLES
    irq,                 \* global interrupt-enable state of the board (pyb)
    disable_interrupts,  \* self.disable_interrupts, the handle's policy
    mag_ready,           \* self.mag_ready
    pollers,             \* closures returned by get_mag_status still held
    init,                \* init[p]: the closure variable `init` of poller p
    triggered,           \* history: a trigger write succeeded, no burst read since
    faulted,             \* history: the last magnetometer call hit a transport error
    consumed,            \* history: the last magnetometer call consumed a Ready cycle
    fresh,               \* history: a status read reported ready since the last trigger
    pc,                  \* position of the demo loop of tests/magtest.py (testfunc)
    hw,                  \* magnetometer: "powerdown", "converting" or "ready"
    phase,               \* construction: "none", "probed" (chip id read) or "ready"
    reg,                 \* the MPU's configuration registers, by address
    _ar,                 \* self._ar: cached accelerometer range index
    _gr,                 \* self._gr: cached gyroscope range index
    mag_correction,      \* self.mag_correction, in 256ths (<<>>: not assigned)
    call,                \* the last call: its name, poller and the state it started in
    bus,                 \* the bus transactions the last call made, in order
    ret                  \* what the last call returned to its caller

vars == <<irq, disable_interrupts, mag_ready, pollers, init, triggered,
          faulted, consumed, fresh, pc, hw, phase, reg, _ar, _gr, mag_correction,
          call, bus, ret>>

\* State the driver calls on a constructed handle leave alone.
testvars == <<pc, hw>>
devvars == <<phase, reg, _ar, _gr, mag_correction>>
others == <<testvars, devvars>>

\* ------------------------------------------------------ values and inputs
\* Outcome of one bus transaction: the bytes handed back, or OSError raised.
Ok(b) == [ok |-> TRUE, bytes |-> b]
OSError == [ok |-> FALSE, bytes |-> <<>>]

\* Python values a call can hand back.
None == [tag |-> "None", val |-> <<>>]
PyInt(n) == [tag |-> "int", val |-> <<n>>]
Bytes(b) == [tag |-> "bytes", val |-> b]
Raised == [tag |-> "OSError", val |-> <<>>]

Pending == None
DataReady == PyInt(1)
Failed == PyInt(2)

ZeroSample == <<0, 0, 0, 0, 0, 0>>
Samples == {ZeroSample, <<255, 127, 0, 128, 16, 39>>}

WriteOutcomes == {Ok(<<>>), OSError}
StatusOutcomes == {Ok(<<0>>), Ok(<<DRDY>>), OSError}
SampleOutcomes == {Ok(s) : s \in Samples} \cup {OSError}
\* Status outcomes fed to one blocking wait: n "not ready" reads, then either
\* the read that reports ready or the read that raises.
SpinInputs ==
    {[k \in 1..(n + 1) |-> IF k <= n THEN Ok(<<0>>) ELSE last] :
        n \in 0..MaxSpin, last \in {Ok(<<DRDY>>), OSError}}

\* ---------------------------------------------------- register transport
\* pyb.disable_irq(): interrupts off, the prior state is returned.
disable_irq(i) == [now |-> FALSE, prior |-> i]
\* pyb.enable_irq(state): the interrupt state becomes `state`.
enable_irq(state) == state

\* One entry of the bus log.
Tx(op, devaddr, memaddr, count, data, out, before, after) ==
    [op |-> op, dev |-> devaddr, reg |-> memaddr, count |-> count,
     data |-> data, ok |-> out.ok, bytes |-> out.bytes,
     policy |-> disable_interrupts, irq_before |-> before, irq_after |-> after]

\* The interrupt state a transport call leaves behind: irq_state starts True,
\* is replaced by the prior state when the policy disables interrupts, and
\* enable_irq(irq_state) runs only when the bus call returned (no finally).
Transport(i, out) ==
    LET d == IF disable_interrupts THEN disable_irq(i)
             ELSE [now |-> i, prior |-> TRUE]
    IN  IF out.ok THEN enable_irq(d.prior) ELSE d.now

\* self._read(count, memaddr, devaddr) started with interrupt state i.
_read(i, count, memaddr, devaddr, out) ==
    LET after == Transport(i, out)
    IN  [raised |-> ~out.ok, result |-> out.bytes, irq |-> after,
         tx |-> Tx("R", devaddr, memaddr, count, <<>>, out, i, after)]

\* self._write(data, memaddr, devaddr) started with interrupt state i.
_write(i, data, memaddr, devaddr, out) ==
    LET after == Transport(i, out)
    IN  [raised |-> ~out.ok, result |-> out.bytes, irq |-> after,
         tx |-> Tx("W", devaddr, memaddr, 1, <<data>>, out, i, after)]

\* ------------------------------------------------------ acquisition state
IsTrigger(t) == t.op = "W" /\ t.dev = mag_addr /\ t.reg = MAG_CNTL
                /\ t.data = <<MAG_TRIGGER>>
IsStatus(t) == t.op = "R" /\ t.dev = mag_addr /\ t.reg = MAG_ST1 /\ t.count = 1
IsBurst(t) == t.op = "R" /\ t.dev = mag_addr /\ t.reg = MAG_DATA /\ t.count = 6

\* The acquisition state of the handle: Ready while mag_ready is set, Error
\* after a magnetometer call that hit a transport error, Triggered while a
\* trigger is outstanding, Idle otherwise.
AcqState ==
    IF mag_ready THEN "Ready"
    ELSE IF faulted THEN "Error"
    ELSE IF triggered THEN "Triggered"
    ELSE "Idle"

\* Some transaction of `log` raised OSError.
Fault(log) == \E k \in 1..Len(log) : ~log[k].ok

\* History of the conversion slot after the transactions of `log`.
RECURSIVE Track(_, _)
Track(t, log) ==
    IF log = <<>> THEN t
    ELSE LET h == Head(log)
         IN  Track(IF h.ok /\ IsTrigger(h) THEN TRUE
                   ELSE IF h.ok /\ IsBurst(h) THEN FALSE
                   ELSE t, Tail(log))

\* Whether a ready status has been read for the latest trigger and its sample
\* is still unread, after the transactions of `log`: a trigger write and a
\* completed burst read clear it, a ready status sets it.
RECURSIVE TrackFresh(_, _)
TrackFresh(f, log) ==
    IF log = <<>> THEN f
    ELSE LET h == Head(log)
         IN  TrackFresh(IF h.ok /\ (IsTrigger(h) \/ IsBurst(h)) THEN FALSE
                        ELSE IF h.ok /\ IsStatus(h) /\ h.bytes = <<DRDY>> THEN TRUE
                        ELSE f, Tail(log))

CallRec(op, p) ==
    [op |-> op, p |-> p, pre |-> AcqState, pre_ready |-> mag_ready,
     pre_init |-> IF p \in pollers THEN init[p] ELSE FALSE,
     after_consume |-> consumed, pre_fresh |-> fresh]

\* -------------------------------------------------------------- handlers
\* Variant of make_magread without the `return None` after the trigger write:
\* the first invocation goes on to test the status register.
make_magread_no_return(p, outW, outS) ==
    LET w == _write(irq, MAG_TRIGGER, MAG_CNTL, mag_addr, outW)
        i == IF init[p] THEN w.irq ELSE irq
        log == IF init[p] THEN <<w.tx>> ELSE <<>>
        r == _read(i, 1, MAG_ST1, mag_addr, outS)
    IN  IF init[p] /\ w.raised
        THEN [init |-> TRUE, mag_ready |-> mag_ready, irq |-> w.irq,
              bus |-> log, ret |-> PyInt(2)]
        ELSE IF r.raised
        THEN [init |-> FALSE, mag_ready |-> mag_ready, irq |-> r.irq,
              bus |-> Append(log, r.tx), ret |-> PyInt(2)]
        ELSE [init |-> FALSE, mag_ready |-> (mag_ready \/ r.result = <<DRDY>>),
              irq |-> r.irq, bus |-> Append(log, r.tx),
              ret |-> IF r.result = <<DRDY>> THEN PyInt(1) ELSE None]

\* Variant of make_magread that tests `not init`: a new closure reads the
\* status register and only a used one writes the trigger.
make_magread_inverted(p, outW, outS) ==
    LET w == _write(irq, MAG_TRIGGER, MAG_CNTL, mag_addr, outW)
        r == _read(irq, 1, MAG_ST1, mag_addr, outS)
    IN  IF ~init[p]
        THEN [init |-> w.raised, mag_ready |-> mag_ready, irq |-> w.irq,
              bus |-> <<w.tx>>, ret |-> IF w.raised THEN PyInt(2) ELSE None]
        ELSE [init |-> init[p],
              mag_ready |-> (mag_ready \/ (~r.raised /\ r.result = <<DRDY>>)),
              irq |-> r.irq, bus |-> <<r.tx>>,
              ret |-> IF r.raised THEN PyInt(2)
                      ELSE IF r.result = <<DRDY>> THEN PyInt(1) ELSE None]

\* Variant of make_magread whose `except OSError` returns None.
make_magread_swallows(p, outW, outS) ==
    LET w == _write(irq, MAG_TRIGGER, MAG_CNTL, mag_addr, outW)
        r == _read(irq, 1, MAG_ST1, mag_addr, outS)
    IN  IF init[p]
        THEN [init |-> w.raised, mag_ready |-> mag_ready, irq |-> w.irq,
              bus |-> <<w.tx>>, ret |-> None]
        ELSE [init |-> FALSE,
              mag_ready |-> (mag_ready \/ (~r.raised /\ r.result = <<DRDY>>)),
              irq |-> r.irq, bus |-> <<r.tx>>,
              ret |-> IF ~r.raised /\ r.result = <<DRDY>> THEN PyInt(1) ELSE None]

\* get_mag_status.make_magread: one invocation of poller p.
\* Variant that never clears `init`: every invocation writes the trigger.
make_magread_retriggers(p, outW, outS) ==
    LET w == _write(irq, MAG_TRIGGER, MAG_CNTL, mag_addr, outW)
    IN  [init |-> TRUE, mag_ready |-> mag_ready, irq |-> w.irq, bus |-> <<w.tx>>,
         ret |-> IF w.raised THEN Failed ELSE Pending]

make_magread(p, outW, outS) ==
    IF init[p]
    THEN LET w == _write(irq, MAG_TRIGGER, MAG_CNTL, mag_addr, outW)
         IN  IF w.raised
             THEN [init |-> TRUE, mag_ready |-> mag_ready, irq |-> w.irq,
                   bus |-> <<w.tx>>, ret |-> PyInt(2)]
             ELSE [init |-> FALSE, mag_ready |-> mag_ready, irq |-> w.irq,
                   bus |-> <<w.tx>>, ret |-> None]
    ELSE LET r == _read(irq, 1, MAG_ST1, mag_addr, outS)
         IN  IF r.raised
             THEN [init |-> FALSE, mag_ready |-> mag_ready, irq |-> r.irq,
                   bus |-> <<r.tx>>, ret |-> PyInt(2)]
             ELSE IF r.result = <<DRDY>>
             THEN [init |-> FALSE, mag_ready |-> TRUE, irq |-> r.irq,
                   bus |-> <<r.tx>>, ret |-> PyInt(1)]
             ELSE [init |-> FALSE, mag_ready |-> mag_ready, irq |-> r.irq,
                   bus |-> <<r.tx>>, ret |-> None]

\* Variant of the status wait with `if` for `while`: one status read, then on.
SpinStatus_once(i, outs) ==
    LET r == _read(i, 1, MAG_ST1, mag_addr, Head(outs))
    IN  IF outs = <<>>
        THEN [irq |-> i, log |-> <<>>, raised |-> FALSE, done |-> FALSE]
        ELSE [irq |-> r.irq, log |-> <<r.tx>>, raised |-> r.raised,
              done |-> ~r.raised]

\* The loop `while self._read(1, 0x02, self.mag_addr) != b'\x01': pass`,
\* fed the status outcomes outs; done is false when outs ends before the
\* loop does (the call has not returned).
RECURSIVE SpinStatus(_, _)
SpinStatus(i, outs) ==
    IF outs = <<>>
    THEN [irq |-> i, log |-> <<>>, raised |-> FALSE, done |-> FALSE]
    ELSE LET r == _read(i, 1, MAG_ST1, mag_addr, Head(outs))
         IN  IF r.raised
             THEN [irq |-> r.irq, log |-> <<r.tx>>, raised |-> TRUE, done |-> FALSE]
             ELSE IF r.result /= <<DRDY>>
             THEN LET rest == SpinStatus(r.irq, Tail(outs))
                  IN  [irq |-> rest.irq, log |-> <<r.tx>> \o rest.log,
                       raised |-> rest.raised, done |-> rest.done]
             ELSE [irq |-> r.irq, log |-> <<r.tx>>, raised |-> FALSE, done |-> TRUE]

\* Variant of the end of get_mag_raw without `self.mag_ready = False`.
BurstRead_keeps_ready(i, log, outB) ==
    LET r == _read(i, 6, MAG_DATA, mag_addr, outB)
    IN  [returned |-> TRUE, mag_ready |-> mag_ready, irq |-> r.irq,
         bus |-> Append(log, r.tx),
         ret |-> IF r.raised THEN Bytes(ZeroSample) ELSE Bytes(r.result)]

\* The burst read and the clearing of mag_ready that end get_mag_raw.
BurstRead(i, log, outB) ==
    LET r == _read(i, 6, MAG_DATA, mag_addr, outB)
    IN  IF r.raised
        THEN [returned |-> TRUE, mag_ready |-> mag_ready, irq |-> r.irq,
              bus |-> Append(log, r.tx), ret |-> Bytes(ZeroSample)]
        ELSE [returned |-> TRUE, mag_ready |-> FALSE, irq |-> r.irq,
              bus |-> Append(log, r.tx), ret |-> Bytes(r.result)]

\* get_mag_raw.
get_mag_raw(outW, outs, outB) ==
    IF ~mag_ready
    THEN LET w == _write(irq, MAG_TRIGGER, MAG_CNTL, mag_addr, outW)
         IN  IF w.raised
             THEN [returned |-> TRUE, mag_ready |-> mag_ready, irq |-> w.irq,
                   bus |-> <<w.tx>>, ret |-> Bytes(ZeroSample)]
             ELSE LET s == SpinStatus(w.irq, outs)
                  IN  IF s.raised
                      THEN [returned |-> TRUE, mag_ready |-> mag_ready,
                            irq |-> s.irq, bus |-> <<w.tx>> \o s.log,
                            ret |-> Bytes(ZeroSample)]
                      ELSE IF ~s.done
                      THEN [returned |-> FALSE, mag_ready |-> mag_ready,
                            irq |-> s.irq, bus |-> <<w.tx>> \o s.log,
                            ret |-> None]
                      ELSE BurstRead(s.irq, <<w.tx>> \o s.log, outB)
    ELSE BurstRead(irq, <<>>, outB)

\* Variant of get_accel_raw without the try/except: OSError reaches the caller.
get_accel_raw_uncaught(out) ==
    LET r == _read(irq, 6, ACCEL_DATA, mpu_addr, out)
    IN  [irq |-> r.irq, bus |-> <<r.tx>>,
         ret |-> IF r.raised THEN Raised ELSE Bytes(r.result)]

\* get_accel_raw.
get_accel_raw(out) ==
    LET r == _read(irq, 6, ACCEL_DATA, mpu_addr, out)
    IN  IF r.raised
        THEN [irq |-> r.irq, bus |-> <<r.tx>>, ret |-> Bytes(ZeroSample)]
        ELSE [irq |-> r.irq, bus |-> <<r.tx>>, ret |-> Bytes(r.result)]

\* get_gyro_raw.
get_gyro_raw(out) ==
    LET r == _read(irq, 6, GYRO_DATA, mpu_addr, out)
    IN  IF r.raised
        THEN [irq |-> r.irq, bus |-> <<r.tx>>, ret |-> Bytes(ZeroSample)]
        ELSE [irq |-> r.irq, bus |-> <<r.tx>>, ret |-> Bytes(r.result)]

\* --------------------------------------------------------------- actions
\* State after MPU9150(side, n, disable_interrupts) on a bus that answered.
\* ------------------------------------------------------------------------
\* Device configuration: the MPU's registers and the calls that set them.

gyro_rate == 8000
WHO_AM_I == 117
PWR_MGMT_1 == 107
INT_PIN_CFG == 55
USER_CTRL == 106
SMPLRT_DIV == 25
GYRO_CONFIG == 27
ACCEL_CONFIG == 28
MAG_ASA == 16
PWR_WAKE == 1
PWR_SLEEP == 64
BYPASS_EN == 2
MAG_ROM_MODE == 15
MAX_DIV == 255

RegAddrs == {PWR_MGMT_1, INT_PIN_CFG, USER_CTRL, SMPLRT_DIV, GYRO_CONFIG, ACCEL_CONFIG}

\* Python values returned by the configuration calls.
PyBool(b) == [tag |-> "bool", val |-> <<b>>]
PyFloat(num, den) == [tag |-> "float", val |-> <<num, den>>]   \* num / den
Awake == [tag |-> "str:awake", val |-> <<>>]
Asleep == [tag |-> "str:asleep", val |-> <<>>]
Unset == [tag |-> "unset", val |-> <<>>]                      \* attribute not assigned

\* The range codes `ar = (0x00, 0x08, 0x10, 0x18)` / `gr = (...)`.
range_codes == <<0, 8, 16, 24>>

\* Python's t[k] on a tuple: k in 0..len-1 counts from the front, k in
\* -len..-1 from the back, anything else raises IndexError.
HasIndex(t, k) == k \in (0 - Len(t))..(Len(t) - 1)
PyIndex(t, k) == IF k >= 0 THEN t[k + 1] ELSE t[Len(t) + k + 1]

\* Python's int(n / d) for d > 0: truncation towards zero.
Trunc(n, d) == IF n >= 0 THEN n \div d ELSE 0 - ((0 - n) \div d)

\* The bus' answer to a write, to a one-byte register read and the register
\* file after a write: a write that fails leaves the register as it was.
Out(ok) == IF ok THEN Ok(<<>>) ELSE OSError
RegOut(regs, a, ok) == IF ok THEN Ok(<<regs[a]>>) ELSE OSError
Store(regs, a, v, ok) == IF ok THEN [regs EXCEPT ![a] = v] ELSE regs

\* unp('<H', self._read(1, ...))[0]: the register byte is the low byte; the
\* byte after the one-byte buffer is the zero that ends a bytes object.
unp_H(bytes) == bytes[1]

\* The registers after reset: the device sleeps, everything else is zero.
RegReset == [a \in RegAddrs |-> IF a = PWR_MGMT_1 THEN PWR_SLEEP ELSE 0]

\* The part of the state a configuration call works on.
Dev == [irq |-> irq, reg |-> reg, ar |-> _ar, gr |-> _gr]

\* wake() and sleep(): one write to the power register inside try/except
\* OSError, then `return 'awake'` / `return 'asleep'`.
power(d, value, okW, name) ==
    LET w == _write(d.irq, value, PWR_MGMT_1, mpu_addr, Out(okW))
    IN  [d |-> [d EXCEPT !.irq = w.irq, !.reg = Store(d.reg, PWR_MGMT_1, value, okW)],
         bus |-> <<w.tx>>, ret |-> name]

wake(d, okW) == power(d, PWR_WAKE, okW, Awake)

sleep(d, okW) == power(d, PWR_SLEEP, okW, Asleep)

\* passthrough(mode): ok[1], ok[2] are the outcomes of the two writes, ok[3]
\* that of the read of the bypass register.
passthrough(d, mode, ok) ==
    LET on == mode \in {PyBool(TRUE), PyInt(1)}
        off == mode \in {PyBool(FALSE), PyInt(0)}
        v == IF on THEN BYPASS_EN ELSE 0
        w1 == _write(d.irq, v, INT_PIN_CFG, mpu_addr, Out(ok[1]))
        r1 == Store(d.reg, INT_PIN_CFG, v, ok[1])
        w2 == _write(w1.irq, 0, USER_CTRL, mpu_addr, Out(ok[2]))
        r2 == Store(r1, USER_CTRL, 0, ok[2])
        set == IF ~(on \/ off)
               THEN [irq |-> d.irq, reg |-> d.reg, log |-> <<>>, raised |-> FALSE]
               ELSE IF w1.raised
               THEN [irq |-> w1.irq, reg |-> r1, log |-> <<w1.tx>>, raised |-> TRUE]
               ELSE [irq |-> w2.irq, reg |-> r2, log |-> <<w1.tx, w2.tx>>,
                     raised |-> w2.raised]
        rd == _read(set.irq, 1, INT_PIN_CFG, mpu_addr, RegOut(set.reg, INT_PIN_CFG, ok[3]))
    IN  IF set.raised
        THEN [d |-> [d EXCEPT !.irq = set.irq, !.reg = set.reg], bus |-> set.log,
              ret |-> None]
        ELSE [d |-> [d EXCEPT !.irq = rd.irq, !.reg = set.reg],
              bus |-> set.log \o <<rd.tx>>,
              ret |-> IF rd.raised THEN None
                      ELSE PyBool(((rd.result[1] \div BYPASS_EN) % 2) = 1)]

\* Variant of the divider computation that rounds to the nearest divider.
rate_div_rounded(rate) ==
    LET t == ((2 * gyro_rate + rate) \div (2 * rate)) - 1
    IN  IF t > MAX_DIV THEN MAX_DIV ELSE IF t < 0 THEN 0 ELSE t

\* Variant of the divider computation that rounds the divider up.
rate_div_up(rate) ==
    LET t == ((gyro_rate + rate - 1) \div rate) - 1
    IN  IF t > MAX_DIV THEN MAX_DIV ELSE t

\* rate_div = int(gyro_rate/rate - 1); if rate_div > 255: rate_div = 255
rate_div(rate) ==
    LET t == Trunc(gyro_rate - rate, rate)
    IN  IF t > MAX_DIV THEN MAX_DIV ELSE t

\* sample_rate(rate): rate is None or a positive integer.
sample_rate(d, rate, okW, okR) ==
    LET sets == rate /= None
        div == rate_div(rate.val[1])
        w == _write(d.irq, div, SMPLRT_DIV, mpu_addr, Out(okW))
        set == IF ~sets
               THEN [irq |-> d.irq, reg |-> d.reg, log |-> <<>>, raised |-> FALSE]
               ELSE [irq |-> w.irq, reg |-> Store(d.reg, SMPLRT_DIV, div, okW),
                     log |-> <<w.tx>>, raised |-> w.raised]
        rd == _read(set.irq, 1, SMPLRT_DIV, mpu_addr, RegOut(set.reg, SMPLRT_DIV, okR))
    IN  IF set.raised
        THEN [d |-> [d EXCEPT !.irq = set.irq, !.reg = set.reg], bus |-> set.log,
              ret |-> None]
        ELSE [d |-> [d EXCEPT !.irq = rd.irq, !.reg = set.reg],
              bus |-> set.log \o <<rd.tx>>,
              ret |-> IF rd.raised THEN None
                      ELSE PyFloat(gyro_rate, unp_H(rd.result) + 1)]

\* The body shared by accel_range (a = 0x1C) and gyro_range (a = 0x1B), up
\* to the value it returns: the write of ar[arg] when arg is not None and
\* ar[arg] raises no IndexError, then the read-back and int(byte / 8); an
\* OSError at either gives None.
set_range(d, arg, a, okW, okR) ==
    LET sets == arg /= None /\ HasIndex(range_codes, arg.val[1])
        code == PyIndex(range_codes, arg.val[1])
        w == _write(d.irq, code, a, mpu_addr, Out(okW))
        set == IF ~sets
               THEN [irq |-> d.irq, reg |-> d.reg, log |-> <<>>, raised |-> FALSE]
               ELSE [irq |-> w.irq, reg |-> Store(d.reg, a, code, okW),
                     log |-> <<w.tx>>, raised |-> w.raised]
        rd == _read(set.irq, 1, a, mpu_addr, RegOut(set.reg, a, okR))
    IN  IF set.raised
        THEN [irq |-> set.irq, reg |-> set.reg, bus |-> set.log, ret |-> None]
        ELSE [irq |-> rd.irq, reg |-> set.reg, bus |-> set.log \o <<rd.tx>>,
              ret |-> IF rd.raised THEN None
                      ELSE PyInt(Trunc(unp_H(rd.result), 8))]

\* Variant of accel_range that leaves the cached index alone.
accel_range_no_cache(d, arg, okW, okR) ==
    LET r == set_range(d, arg, ACCEL_CONFIG, okW, okR)
    IN  [d |-> [d EXCEPT !.irq = r.irq, !.reg = r.reg], bus |-> r.bus, ret |-> r.ret]

\* accel_range(accel_range): `if ari is not None: self._ar = ari; return ari`
accel_range(d, arg, okW, okR) ==
    LET r == set_range(d, arg, ACCEL_CONFIG, okW, okR)
    IN  [d |-> [d EXCEPT !.irq = r.irq, !.reg = r.reg,
                         !.ar = IF r.ret /= None THEN r.ret ELSE d.ar],
         bus |-> r.bus, ret |-> r.ret]

\* gyro_range(gyro_range): `if gri is not None: self._gr = gri; return gri`
gyro_range(d, arg, okW, okR) ==
    LET r == set_range(d, arg, GYRO_CONFIG, okW, okR)
    IN  [d |-> [d EXCEPT !.irq = r.irq, !.reg = r.reg,
                         !.gr = IF r.ret /= None THEN r.ret ELSE d.gr],
         bus |-> r.bus, ret |-> r.ret]

\* The neutral coefficients (1.0, 1.0, 1.0), in 256ths.
Neutral == <<256, 256, 256>>

\* (0.5*(data[k] - 128))/128 + 1 = (data[k] + 128)/256, in 256ths.
Coefficients(data) == <<data[1] + 128, data[2] + 128, data[3] + 128>>

\* _get_mag_corrections(): ROM-mode write, three-byte read of the trim
\* registers, the three coefficients; an OSError of either leaves the call.
_get_mag_corrections(i, okW, okR, trim) ==
    LET w == _write(i, MAG_ROM_MODE, MAG_CNTL, mag_addr, Out(okW))
        rd == _read(w.irq, 3, MAG_ASA, mag_addr, IF okR THEN Ok(trim) ELSE OSError)
    IN  IF w.raised
        THEN [irq |-> w.irq, bus |-> <<w.tx>>, raised |-> TRUE, ret |-> <<>>]
        ELSE [irq |-> rd.irq, bus |-> <<w.tx, rd.tx>>, raised |-> rd.raised,
              ret |-> IF rd.raised THEN <<>> ELSE Coefficients(rd.result)]

\* Variant of the calibration step without the neutral default.
init_corrections_no_default(i, okW, okR, trim) ==
    LET c == _get_mag_corrections(i, okW, okR, trim)
    IN  [irq |-> c.irq, bus |-> c.bus, corr |-> c.ret]

\* __init__, lines 84-88: self.mag_correction = (1.0, 1.0, 1.0), replaced by
\* the result of _get_mag_corrections() unless that raises OSError.
init_corrections(i, okW, okR, trim) ==
    LET c == _get_mag_corrections(i, okW, okR, trim)
    IN  [irq |-> c.irq, bus |-> c.bus,
         corr |-> IF c.raised THEN Neutral ELSE c.ret]

InitDriver ==
    /\ irq = TRUE
    /\ disable_interrupts \in BOOLEAN
    /\ mag_ready = FALSE
    /\ pollers = {}
    /\ init = [p \in Pollers |-> TRUE]
    /\ triggered = FALSE
    /\ faulted = FALSE
    /\ consumed = FALSE
    /\ fresh = FALSE
    /\ call = [op |-> "__init__", p |-> 0, pre |-> "Idle", pre_ready |-> FALSE,
               pre_init |-> FALSE, after_consume |-> FALSE, pre_fresh |-> FALSE]
    /\ bus = <<>>
    /\ ret = None

\* Contents of the magnetometer's three trim registers.
TrimChoices == {<<0, 128, 255>>}

\* The handle after a construction on which no transaction failed.
InitDevice ==
    /\ phase = "ready"
    /\ reg = [RegReset EXCEPT ![PWR_MGMT_1] = PWR_WAKE, ![INT_PIN_CFG] = BYPASS_EN,
                              ![ACCEL_CONFIG] = range_codes[4],
                              ![GYRO_CONFIG] = range_codes[4]]
    /\ _ar = PyInt(3)
    /\ _gr = PyInt(3)
    /\ mag_correction \in {Coefficients(t) : t \in TrimChoices}

Init ==
    /\ InitDriver
    /\ InitDevice
    /\ pc = "stopped"
    /\ hw = "powerdown"

\* runmag = imu.get_mag_status(): a new closure with init = True bound to p
\* (a closure p held before is dropped).
GetMagStatus(p) ==
    /\ pollers' = pollers \cup {p}
    /\ init' = [init EXCEPT ![p] = TRUE]
    /\ call' = CallRec("get_mag_status", p)
    /\ bus' = <<>>
    /\ ret' = None
    /\ UNCHANGED <<irq, disable_interrupts, mag_ready, triggered, faulted, consumed,
                   fresh, others>>

\* runmag(): one invocation of poller p.
Poll(p) ==
    /\ p \in pollers
    /\ \E outW \in WriteOutcomes, outS \in StatusOutcomes :
         \E r \in {make_magread(p, outW, outS)} :
             /\ init' = [init EXCEPT ![p] = r.init]
             /\ mag_ready' = r.mag_ready
             /\ irq' = r.irq
             /\ bus' = r.bus
             /\ ret' = r.ret
             /\ triggered' = Track(triggered, r.bus)
             /\ faulted' = Fault(r.bus)
             /\ fresh' = TrackFresh(fresh, r.bus)
    /\ consumed' = FALSE
    /\ call' = CallRec("poll", p)
    /\ UNCHANGED <<disable_interrupts, pollers, others>>

\* imu.get_mag_raw().
GetMagRaw ==
    /\ \E outW \in WriteOutcomes, outs \in SpinInputs, outB \in SampleOutcomes :
         \E r \in {get_mag_raw(outW, outs, outB)} :
             /\ r.returned
             /\ mag_ready' = r.mag_ready
             /\ irq' = r.irq
             /\ bus' = r.bus
             /\ ret' = r.ret
             /\ triggered' = Track(triggered, r.bus)
             /\ faulted' = Fault(r.bus)
             /\ fresh' = TrackFresh(fresh, r.bus)
             /\ consumed' = (mag_ready /\ ~r.mag_ready)
    /\ call' = CallRec("get_mag_raw", 0)
    /\ UNCHANGED <<disable_interrupts, pollers, init, others>>

\* imu.get_accel_raw().
GetAccelRaw ==
    /\ \E out \in SampleOutcomes :
         LET r == get_accel_raw(out)
         IN  irq' = r.irq /\ bus' = r.bus /\ ret' = r.ret
    /\ call' = CallRec("get_accel_raw", 0)
    /\ UNCHANGED <<disable_interrupts, mag_ready, pollers, init, triggered, faulted,
                   consumed, fresh, others>>

\* imu.get_gyro_raw().
GetGyroRaw ==
    /\ \E out \in SampleOutcomes :
         LET r == get_gyro_raw(out)
         IN  irq' = r.irq /\ bus' = r.bus /\ ret' = r.ret
    /\ call' = CallRec("get_gyro_raw", 0)
    /\ UNCHANGED <<disable_interrupts, mag_ready, pollers, init, triggered, faulted,
                   consumed, fresh, others>>

\* The application masks or unmasks interrupts itself (pyb.disable_irq /
\* pyb.enable_irq around its own critical section).
AppIrq(state) ==
    /\ irq /= state
    /\ irq' = state
    /\ call' = CallRec("irq", 0)
    /\ bus' = <<>>
    /\ ret' = None
    /\ UNCHANGED <<disable_interrupts, mag_ready, pollers, init, triggered, faulted,
                   consumed, fresh, others>>

Next ==
    \/ \E p \in Pollers : GetMagStatus(p)
    \/ \E p \in Pollers : Poll(p)
    \/ GetMagRaw
    \/ GetAccelRaw
    \/ GetGyroRaw
    \/ \E s \in BOOLEAN : AppIrq(s)

Spec == Init /\ [][Next]_vars

\* ------------------------------------------------- properties of the driver
PollCall == call.op = "poll" /\ Len(bus) = 1
MagRawCall == call.op = "get_mag_raw" /\ Len(bus) >= 1
AnyFailed == Fault(bus)
AllOk == ~Fault(bus)

\* C1: with the interrupt-disable policy set, a transport call (_read or
\* _write) that found interrupts enabled and disabled them has them enabled
\* again when it exits, on every exit path, the OSError path included.
C1_IrqReenabledOnExit ==
    \A k \in 1..Len(bus) :
        (bus[k].policy /\ bus[k].irq_before) => bus[k].irq_after

\* C2: a transport call leaves the interrupt state as it found it: enabled
\* after the call iff enabled before it, with the policy on or off.
C2_IrqStateRestored ==
    \A k \in 1..Len(bus) : bus[k].irq_after = bus[k].irq_before

\* C3 (as claimed): the first invocation of a poller, made in state Idle,
\* makes exactly one bus transaction, the trigger write, leaves the ready
\* flag clear and returns Pending.
C3_FirstPollReturnsPending ==
    (call.op = "poll" /\ call.pre_init /\ call.pre = "Idle") =>
        /\ Len(bus) = 1 /\ IsTrigger(bus[1])
        /\ ~mag_ready
        /\ ret = Pending

\* C3 (amended): the first invocation of a poller, made in state Idle, makes
\* exactly one bus transaction, the trigger write, and leaves the ready flag
\* clear; it returns Pending and the state becomes Triggered when the write
\* succeeds, and it returns Failed and the state becomes Error when it fails.
C3_FirstPollTriggers ==
    (call.op = "poll" /\ call.pre_init /\ call.pre = "Idle") =>
        /\ Len(bus) = 1 /\ IsTrigger(bus[1])
        /\ ~mag_ready
        /\ bus[1].ok => (ret = Pending /\ AcqState = "Triggered")
        /\ ~bus[1].ok => (ret = Failed /\ AcqState = "Error")

C3_Witness ==
    /\ call.op = "poll" /\ call.pre_init /\ call.pre = "Idle"
    /\ Len(bus) = 1 /\ IsTrigger(bus[1]) /\ bus[1].ok
    /\ ret = Pending /\ AcqState = "Triggered"

\* C4: every poller invocation made in state Triggered makes exactly one
\* status read and no write; a status that is not ready gives Pending and
\* leaves the state Triggered, a ready status gives DataReady and state Ready.
C4_TriggeredPollReadsStatus ==
    (call.op = "poll" /\ call.pre = "Triggered") =>
        /\ Len(bus) = 1 /\ IsStatus(bus[1])
        /\ (bus[1].ok /\ bus[1].bytes /= <<DRDY>>) =>
               (ret = Pending /\ AcqState = "Triggered")
        /\ (bus[1].ok /\ bus[1].bytes = <<DRDY>>) =>
               (ret = DataReady /\ AcqState = "Ready")

\* C5: in state Ready a get_mag_raw whose transport does not fail makes only
\* the six-byte burst read, returns the bytes read and leaves the state Idle
\* with the ready flag clear.
C5_ReadyConsumedByBurst ==
    (MagRawCall /\ call.pre = "Ready" /\ AllOk) =>
        /\ Len(bus) = 1 /\ IsBurst(bus[1])
        /\ ret = Bytes(bus[1].bytes)
        /\ ~mag_ready /\ AcqState = "Idle"

C5_Witness ==
    /\ MagRawCall /\ call.pre = "Ready" /\ AllOk
    /\ IsBurst(bus[1]) /\ ret = Bytes(bus[1].bytes) /\ ret /= Bytes(ZeroSample)
    /\ AcqState = "Idle"

\* C6: a get_mag_raw made in state Ready whose burst read fails leaves the
\* state Idle (ready flag clear) and returns the all-zero sample.
C6_FailedBurstResetsToIdle ==
    (MagRawCall /\ call.pre = "Ready" /\ AnyFailed) =>
        /\ ~mag_ready /\ AcqState = "Idle"
        /\ ret = Bytes(ZeroSample)

\* C7: no call issues a trigger write while a triggered cycle is outstanding
\* (state Triggered or Ready).
C7_NoTriggerWhileOutstanding ==
    \A k \in 1..Len(bus) :
        IsTrigger(bus[k]) => (k = 1 /\ call.pre \notin {"Triggered", "Ready"})

\* C8 (as claimed): the poll invocation that follows the consumption of a
\* Ready cycle issues the trigger write and returns Pending.
C8_PollAfterConsumeTriggers ==
    (call.op = "poll" /\ call.after_consume) =>
        /\ Len(bus) = 1 /\ IsTrigger(bus[1])
        /\ ret = Pending

\* C8 (amended): after a Ready cycle has been consumed, the first invocation
\* of a poller newly obtained from get_mag_status issues the trigger write
\* (Pending when the write succeeds, Failed when it fails); an invocation of
\* a poller that has already issued its trigger reads the status register.
C8_FreshPollAfterConsumeTriggers ==
    (call.op = "poll" /\ call.after_consume) =>
        /\ Len(bus) = 1
        /\ call.pre_init =>
               /\ IsTrigger(bus[1])
               /\ ret = (IF bus[1].ok THEN Pending ELSE Failed)
               /\ bus[1].ok => AcqState = "Triggered"
        /\ ~call.pre_init => IsStatus(bus[1])

C8_Witness ==
    /\ call.op = "poll" /\ call.after_consume /\ call.pre_init
    /\ Len(bus) = 1 /\ IsTrigger(bus[1]) /\ bus[1].ok
    /\ ret = Pending

\* C9: a poller invocation whose bus transaction fails returns Failed, which
\* is neither Pending nor DataReady, and leaves the ready flag as it was.
C9_FailedPollReturnsFailed ==
    (call.op = "poll" /\ AnyFailed) =>
        /\ ret = Failed
        /\ ret /= Pending /\ ret /= DataReady
        /\ mag_ready = call.pre_ready

C9_Witness ==
    /\ call.op = "poll" /\ Len(bus) = 1 /\ IsStatus(bus[1]) /\ ~bus[1].ok
    /\ ret = Failed /\ ~mag_ready

\* C10: a raw data read (get_accel_raw, get_gyro_raw, get_mag_raw) in which a
\* bus transaction fails never raises to its caller: it returns the all-zero
\* six-byte sample.
C10_RawReadNeverRaises ==
    (call.op \in {"get_accel_raw", "get_gyro_raw", "get_mag_raw"} /\ AnyFailed) =>
        /\ ret /= Raised
        /\ ret = Bytes(ZeroSample)

C10_Witness ==
    /\ call.op = "get_mag_raw" /\ Len(bus) >= 3
    /\ IsStatus(bus[Len(bus)]) /\ ~bus[Len(bus)].ok
    /\ ret = Bytes(ZeroSample)

\* C11: a get_mag_raw called with the ready flag clear writes the trigger
\* first, then reads the status register until a read reports ready, then
\* makes exactly one six-byte burst read: a burst read is the last
\* transaction of the call and follows a status read of this call that
\* reported ready, and a transaction that fails is the last one of the call,
\* so that a failed trigger write or status read leaves the call without a
\* burst read.
C11_BlockingOrder ==
    (call.op = "get_mag_raw" /\ ~call.pre_ready) =>
        /\ Len(bus) >= 1 /\ IsTrigger(bus[1])
        /\ \A k \in 2..Len(bus) : IsStatus(bus[k]) \/ IsBurst(bus[k])
        /\ \A k \in 1..Len(bus) : ~bus[k].ok => k = Len(bus)
        /\ \A k \in 1..Len(bus) :
               IsBurst(bus[k]) =>
                   /\ k = Len(bus) /\ k >= 3
                   /\ IsStatus(bus[k - 1]) /\ bus[k - 1].ok
                   /\ bus[k - 1].bytes = <<DRDY>>
        /\ \A k \in 2..Len(bus) :
               (IsStatus(bus[k]) /\ k < Len(bus) - 1) =>
                   (bus[k].ok /\ bus[k].bytes /= <<DRDY>>)
        /\ AllOk => IsBurst(bus[Len(bus)])

C11_Witness ==
    /\ call.op = "get_mag_raw" /\ ~call.pre_ready /\ AllOk
    /\ Len(bus) = 4 /\ IsTrigger(bus[1])
    /\ IsStatus(bus[2]) /\ bus[2].bytes /= <<DRDY>>
    /\ IsStatus(bus[3]) /\ bus[3].bytes = <<DRDY>>
    /\ IsBurst(bus[4]) /\ ret = Bytes(bus[4].bytes)

\* Every burst read of `log` is made while a ready status has been read for
\* the latest trigger (f: whether that is so before `log`).
RECURSIVE BurstsFresh(_, _)
BurstsFresh(f, log) ==
    IF log = <<>> THEN TRUE
    ELSE /\ IsBurst(Head(log)) => f
         /\ BurstsFresh(TrackFresh(f, <<Head(log)>>), Tail(log))

\* C17: every six-byte burst read is issued after a status read reported
\* ready for the most recently issued trigger: no trigger write lies between
\* the last ready status read and the burst read.
C17_BurstOnlyAfterReadyStatus ==
    BurstsFresh(call.pre_fresh, bus)

\* ------------------------------------------------------------------------
\* The polling loop of tests/magtest.py on a bus that does not fail, against
\* a magnetometer that converts after each trigger.
\*
\*     runmag = a.get_mag_status()
\*     mag_status = runmag()
\*     while mag_status is None:
\*         mag_status = runmag()
\*     z = a.get_mag()
\*
\* test() runs testfunc once per closure; the closures are numbered in the
\* order of their creation.

\* The status byte the magnetometer answers with.
HwStatus == IF hw = "ready" THEN <<DRDY>> ELSE <<0>>

\* The magnetometer after the transactions of `log`: a trigger write starts
\* a conversion, a burst read of the data registers clears data-ready.
RECURSIVE HwAfter(_, _)
HwAfter(h, log) ==
    IF log = <<>> THEN h
    ELSE HwAfter(IF Head(log).ok /\ IsTrigger(Head(log)) THEN "converting"
                 ELSE IF Head(log).ok /\ IsBurst(Head(log)) THEN "powerdown"
                 ELSE h, Tail(log))

LiveInit ==
    /\ InitDriver
    /\ InitDevice
    /\ pc = "create"
    /\ hw = "powerdown"

\* runmag = a.get_mag_status()
TestCreate ==
    /\ pc = "create"
    /\ LET p == Cardinality(pollers) + 1
       IN  /\ pollers' = pollers \cup {p}
           /\ init' = [init EXCEPT ![p] = TRUE]
           /\ call' = CallRec("get_mag_status", p)
    /\ bus' = <<>>
    /\ ret' = None
    /\ pc' = "poll"
    /\ UNCHANGED <<irq, disable_interrupts, mag_ready, triggered, faulted, consumed,
                   fresh, hw, devvars>>

\* mag_status = runmag(), and the test `mag_status is None`
TestPoll ==
    /\ pc = "poll"
    /\ LET p == Cardinality(pollers)
           r == make_magread(p, Ok(<<>>), Ok(HwStatus))
       IN  /\ init' = [init EXCEPT ![p] = r.init]
           /\ mag_ready' = r.mag_ready
           /\ irq' = r.irq
           /\ bus' = r.bus
           /\ ret' = r.ret
           /\ triggered' = Track(triggered, r.bus)
           /\ faulted' = Fault(r.bus)
           /\ fresh' = TrackFresh(fresh, r.bus)
           /\ hw' = HwAfter(hw, r.bus)
           /\ pc' = IF r.ret = None THEN "poll" ELSE "get_mag"
           /\ call' = CallRec("poll", p)
    /\ consumed' = FALSE
    /\ UNCHANGED <<disable_interrupts, pollers, devvars>>

\* z = a.get_mag(): the bus traffic is that of its get_mag_raw call, whose
\* bytes are recorded as the result; testfunc then returns, and test() calls
\* it again while closures remain.
TestGetMag ==
    /\ pc = "get_mag"
    /\ \E sample \in Samples :
         LET r == get_mag_raw(Ok(<<>>), <<Ok(<<DRDY>>)>>, Ok(sample))
         IN  /\ r.returned
             /\ mag_ready' = r.mag_ready
             /\ irq' = r.irq
             /\ bus' = r.bus
             /\ ret' = r.ret
             /\ triggered' = Track(triggered, r.bus)
             /\ faulted' = Fault(r.bus)
             /\ fresh' = TrackFresh(fresh, r.bus)
             /\ consumed' = (mag_ready /\ ~r.mag_ready)
             /\ hw' = HwAfter(hw, r.bus)
    /\ call' = CallRec("get_mag", 0)
    /\ pc' = IF Cardinality(pollers) < MaxPollers THEN "create" ELSE "done"
    /\ UNCHANGED <<disable_interrupts, pollers, init, devvars>>

\* The conversion started by a trigger completes: data-ready is raised.
HwComplete ==
    /\ hw = "converting"
    /\ hw' = "ready"
    /\ UNCHANGED <<irq, disable_interrupts, mag_ready, pollers, init, triggered,
                   faulted, consumed, fresh, pc, devvars, call, bus, ret>>

\* Another thread of the application masks or unmasks interrupts.
TestIrq ==
    /\ pc /= "done"
    /\ irq' = ~irq
    /\ UNCHANGED <<disable_interrupts, mag_ready, pollers, init, triggered,
                   faulted, consumed, fresh, pc, hw, devvars, call, bus, ret>>

LiveNext ==
    \/ TestCreate
    \/ TestPoll
    \/ TestGetMag
    \/ HwComplete
    \/ TestIrq

\* The loop keeps running and every conversion completes.
LiveSpec ==
    /\ LiveInit
    /\ [][LiveNext]_vars
    /\ WF_vars(TestCreate \/ TestPoll \/ TestGetMag)
    /\ WF_vars(HwComplete)

\* C18: on a transport that never fails, with hardware that completes every
\* conversion, invoking a newly created poller until it returns something
\* other than Pending eventually returns DataReady (1), and the get_mag call
\* that follows makes the six-byte burst read only: no trigger write and no
\* status read.
C18_PollingTerminatesReady ==
    /\ (pc = "poll") ~> (pc = "get_mag" /\ ret = DataReady)
    /\ [](call.op = "get_mag" =>
             (Len(bus) = 1 /\ IsBurst(bus[1]) /\ bus[1].ok /\ ret = Bytes(bus[1].bytes)))

C18_Witness ==
    /\ call.op = "get_mag" /\ call.pre_ready
    /\ Len(bus) = 1 /\ IsBurst(bus[1])
    /\ pc = "done"

\* ------------------------------------------------------------------------
\* Construction of a handle on a bus that may fail.

Transactions == 12

\* Outcomes of the transactions of the construction after the chip id read,
\* in program order: any set of them may fail.
FaultVectors ==
    {[k \in 1..Transactions |-> k \notin failing] : failing \in SUBSET (1..Transactions)}

\* Arguments the calls are made with.
PolicyArgs == {PyBool(TRUE), PyBool(FALSE), None}
ModeArgs == {None, PyBool(TRUE), PyBool(FALSE), PyInt(2)}
RangeArgs == {None} \cup {PyInt(k) : k \in -1..4}
RateArgs == {None, PyInt(35), PyInt(1000)}

CfgCall(op, arg) ==
    [op |-> op, arg |-> arg]

magvars == <<mag_ready, pollers, init, triggered, faulted, consumed, fresh, pc, hw>>

\* No handle yet: the device is in its reset state.
BringUpInit ==
    /\ irq = TRUE
    /\ disable_interrupts = FALSE
    /\ mag_ready = FALSE
    /\ pollers = {}
    /\ init = [p \in Pollers |-> TRUE]
    /\ triggered = FALSE
    /\ faulted = FALSE
    /\ consumed = FALSE
    /\ fresh = FALSE
    /\ pc = "stopped"
    /\ hw = "powerdown"
    /\ phase = "none"
    /\ reg = RegReset
    /\ _ar = Unset
    /\ _gr = Unset
    /\ mag_correction = <<>>
    /\ call = CfgCall("none", None)
    /\ bus = <<>>
    /\ ret = None

\* MPU9150(side, no_of_dev, disable_interrupts), lines 46-79: the chip id is
\* read with the interrupt policy off, then the caller's setting is applied
\* (anything but True or False selects True). An OSError of the read leaves
\* the constructor: there is no handle.
Probe(setting) ==
    /\ phase = "none"
    /\ \E okR \in BOOLEAN :
         LET r == _read(irq, 1, WHO_AM_I, mpu_addr,
                        IF okR THEN Ok(<<mpu_addr>>) ELSE OSError)
         IN  /\ irq' = r.irq
             /\ bus' = <<r.tx>>
             /\ phase' = IF r.raised THEN "none" ELSE "probed"
             /\ ret' = IF r.raised THEN Raised ELSE None
             /\ disable_interrupts' =
                    IF r.raised THEN FALSE ELSE setting /= PyBool(FALSE)
    /\ call' = CfgCall("probe", setting)
    /\ UNCHANGED <<magvars, reg, _ar, _gr, mag_correction>>

\* MPU9150(...), lines 81-92, under the policy just set: wake,
\* passthrough(True), the calibration read and the two range settings, each
\* working on the state its predecessor left; ok[k] is the outcome of the
\* k-th transaction in program order (a transaction that an earlier OSError
\* skipped ignores its ok).
Configure ==
    /\ phase = "probed"
    /\ \E ok \in FaultVectors, trim \in TrimChoices :
       \E a \in {wake(Dev, ok[1])} :
       \E b \in {passthrough(a.d, PyBool(TRUE), <<ok[2], ok[3], ok[4]>>)} :
       \E c \in {init_corrections(b.d.irq, ok[5], ok[6], trim)} :
       \E e \in {accel_range([b.d EXCEPT !.irq = c.irq], PyInt(3), ok[7], ok[8])} :
       \E f \in {accel_range(e.d, None, TRUE, ok[9])} :
       \E g \in {gyro_range([f.d EXCEPT !.ar = f.ret], PyInt(3), ok[10], ok[11])} :
       \E h \in {gyro_range(g.d, None, TRUE, ok[12])} :
           /\ irq' = h.d.irq
           /\ reg' = h.d.reg
           /\ _ar' = h.d.ar
           /\ _gr' = h.ret
           /\ mag_correction' = c.corr
           /\ bus' = a.bus \o b.bus \o c.bus \o e.bus \o f.bus \o g.bus \o h.bus
    /\ phase' = "ready"
    /\ ret' = None
    /\ call' = CfgCall("__init__", None)
    /\ UNCHANGED <<magvars, disable_interrupts>>

BringUpNext ==
    \/ \E setting \in PolicyArgs : Probe(setting)
    \/ Configure

BringUpSpec == BringUpInit /\ [][BringUpNext]_vars

\* ------------------------------------------------------------------------
\* Configuration calls on a constructed handle, on a bus that may fail.

\* The effect of a call with result r.
Apply(op, arg, r) ==
    /\ irq' = r.d.irq
    /\ reg' = r.d.reg
    /\ _ar' = r.d.ar
    /\ _gr' = r.d.gr
    /\ bus' = r.bus
    /\ ret' = r.ret
    /\ call' = CfgCall(op, arg)
    /\ UNCHANGED <<magvars, disable_interrupts, phase, mag_correction>>

\* imu.wake()
Wake ==
    /\ phase = "ready"
    /\ \E okW \in BOOLEAN : Apply("wake", None, wake(Dev, okW))

\* imu.sleep()
Sleep ==
    /\ phase = "ready"
    /\ \E okW \in BOOLEAN : Apply("sleep", None, sleep(Dev, okW))

\* imu.passthrough(mode)
Passthrough(mode) ==
    /\ phase = "ready"
    /\ \E ok \in [1..3 -> BOOLEAN] :
         Apply("passthrough", mode, passthrough(Dev, mode, ok))

\* imu.sample_rate(rate)
SampleRate(rate) ==
    /\ phase = "ready"
    /\ \E okW, okR \in BOOLEAN :
         Apply("sample_rate", rate, sample_rate(Dev, rate, okW, okR))

\* imu.accel_range(arg)
AccelRange(arg) ==
    /\ phase = "ready"
    /\ \E okW, okR \in BOOLEAN :
         Apply("accel_range", arg, accel_range(Dev, arg, okW, okR))

\* imu.gyro_range(arg)
GyroRange(arg) ==
    /\ phase = "ready"
    /\ \E okW, okR \in BOOLEAN :
         Apply("gyro_range", arg, gyro_range(Dev, arg, okW, okR))

\* Power, passthrough and sample rate.
CfgNext ==
    \/ Wake
    \/ Sleep
    \/ \E mode \in ModeArgs : Passthrough(mode)
    \/ \E rate \in RateArgs : SampleRate(rate)

CfgSpec == Init /\ [][CfgNext]_vars

\* The two full-scale ranges.
RangeNext ==
    \/ \E arg \in RangeArgs : AccelRange(arg)
    \/ \E arg \in RangeArgs : GyroRange(arg)

RangeSpec == Init /\ [][RangeNext]_vars

\* ------------------------------------------------- properties of the device

IsRomWrite(t) ==
    t.op = "W" /\ t.dev = mag_addr /\ t.reg = MAG_CNTL /\ t.data = <<MAG_ROM_MODE>>
IsTrimRead(t) == t.op = "R" /\ t.dev = mag_addr /\ t.reg = MAG_ASA /\ t.count = 3
IsWrite(t, a) == t.op = "W" /\ t.dev = mpu_addr /\ t.reg = a
IsRead(t, a) == t.op = "R" /\ t.dev = mpu_addr /\ t.reg = a

\* The calibration read of the construction failed: its ROM-mode write, or
\* its three-byte read, raised OSError.
CalibrationFailed ==
    \E k \in 1..Len(bus) : (IsRomWrite(bus[k]) \/ IsTrimRead(bus[k])) /\ ~bus[k].ok

\* C12: when the calibration read fails during construction, at its ROM-mode
\* write or at its three-byte trim read, the coefficients of the handle are
\* exactly (1.0, 1.0, 1.0); a constructed handle always has three
\* coefficients, either the neutral ones or the three computed from the trim
\* bytes that were read.
C12_CalibrationFallsBackToNeutral ==
    phase = "ready" =>
        /\ CalibrationFailed => mag_correction = Neutral
        /\ \/ mag_correction = Neutral
           \/ \E k \in 1..Len(bus) :
                  /\ IsTrimRead(bus[k]) /\ bus[k].ok
                  /\ mag_correction = <<bus[k].bytes[1] + 128, bus[k].bytes[2] + 128,
                                        bus[k].bytes[3] + 128>>

\* The trim read failed after the ROM-mode write went through.
C12_Witness ==
    /\ phase = "ready" /\ call.op = "__init__"
    /\ \E k \in 2..Len(bus) :
           /\ IsRomWrite(bus[k - 1]) /\ bus[k - 1].ok
           /\ IsTrimRead(bus[k]) /\ ~bus[k].ok
    /\ mag_correction = Neutral

ConfigOps == {"wake", "sleep", "passthrough", "accel_range", "gyro_range", "sample_rate"}

\* The values a configuration call returns when it succeeds: 'awake',
\* 'asleep', a bool, a range index, a rate.
SuccessTags == {"str:awake", "str:asleep", "bool", "int", "float"}

\* C13: a configuration call (wake, sleep, passthrough, accel_range,
\* gyro_range, sample_rate) one of whose transactions fails returns a value
\* that no successful call returns; none returns its success value, such as
\* 'awake' or 'asleep', after a failed write or read-back.
C13_ConfigFailureReported ==
    (call.op \in ConfigOps /\ AnyFailed) => ret.tag \notin SuccessTags

\* C14: on a bus that does not fail, accel_range(i) and gyro_range(i) with i
\* in 0..3 return i, leave i in the cached range index, and a read-back call
\* without argument made next returns i too.
C14_RangeRoundTrip ==
    /\ (call.op = "accel_range" /\ call.arg \in {PyInt(i) : i \in 0..3} /\ AllOk) =>
           /\ ret = call.arg
           /\ _ar = call.arg
           /\ accel_range(Dev, None, TRUE, TRUE).ret = call.arg
           /\ accel_range(Dev, None, TRUE, TRUE).d.ar = call.arg
    /\ (call.op = "gyro_range" /\ call.arg \in {PyInt(i) : i \in 0..3} /\ AllOk) =>
           /\ ret = call.arg
           /\ _gr = call.arg
           /\ gyro_range(Dev, None, TRUE, TRUE).ret = call.arg
           /\ gyro_range(Dev, None, TRUE, TRUE).d.gr = call.arg

\* accel_range(1) on a handle whose range was 3, both transactions made.
C14_Witness ==
    /\ call.op = "accel_range" /\ call.arg = PyInt(1) /\ AllOk
    /\ Len(bus) = 2 /\ IsWrite(bus[1], ACCEL_CONFIG) /\ IsRead(bus[2], ACCEL_CONFIG)
    /\ ret = PyInt(1) /\ _ar = PyInt(1) /\ _gr = PyInt(3)

\* C19: on a constructed handle, whatever accel_range and gyro_range calls
\* were made and whichever of their transactions failed, each cached range
\* index is in 0..3 and is the index held by the device's range register.
C19_CacheMatchesRegister ==
    phase = "ready" =>
        /\ _ar \in {PyInt(i) : i \in 0..3}
        /\ _gr \in {PyInt(i) : i \in 0..3}
        /\ _ar = PyInt(reg[ACCEL_CONFIG] \div 8)
        /\ _gr = PyInt(reg[GYRO_CONFIG] \div 8)

\* C20: an accel_range or gyro_range call with an integer index outside 0..3,
\* negative ones included, writes no register and leaves the range registers
\* and the cached range indices as they were.
C20_InvalidIndexIgnored ==
    [][(/\ call'.op \in {"accel_range", "gyro_range"}
        /\ call'.arg /= None
        /\ call'.arg.val[1] \notin 0..3)
       => (/\ \A k \in 1..Len(bus') : bus'[k].op /= "W"
           /\ reg' = reg
           /\ _ar' = _ar
           /\ _gr' = _gr)]_vars

\* ------------------------------------------------------------------------
\* The sample rate: one sample_rate(hz) call for each hz of a range, on a
\* bus that does not fail.

MaxRate == 8200

\* The handle of the demo scripts, MPU9150('Y', 1, True), and the rate about
\* to be requested.
RateInit ==
    /\ irq = TRUE
    /\ disable_interrupts = TRUE
    /\ mag_ready = FALSE
    /\ pollers = {}
    /\ init = [p \in Pollers |-> TRUE]
    /\ triggered = FALSE
    /\ faulted = FALSE
    /\ consumed = FALSE
    /\ fresh = FALSE
    /\ pc = "stopped"
    /\ hw = "powerdown"
    /\ InitDevice
    /\ \E hz \in 1..MaxRate : call = CfgCall("request", PyInt(hz))
    /\ bus = <<>>
    /\ ret = None

\* imu.sample_rate(hz)
RequestRate ==
    /\ phase = "ready"
    /\ call.op = "request"
    /\ Apply("sample_rate", call.arg, sample_rate(Dev, call.arg, TRUE, TRUE))

RateNext ==
    \/ RequestRate

RateSpec == RateInit /\ [][RateNext]_vars

\* The divider a sample_rate call wrote.
WrittenDivider == bus[1].data[1]

\* The call set the rate: its write of the divider went through.
RateWritten ==
    /\ call.op = "sample_rate" /\ call.arg /= None
    /\ Len(bus) >= 1 /\ IsWrite(bus[1], SMPLRT_DIV)

Clamp(x) == IF x > 255 THEN 255 ELSE IF x < 0 THEN 0 ELSE x

\* Python's round(n / d) for positive n, d: to the nearest integer, a half
\* to the even one.
Round(n, d) ==
    LET q == n \div d
        r2 == 2 * (n % d)
    IN  IF r2 > d \/ (r2 = d /\ q % 2 = 1) THEN q + 1 ELSE q

\* C15 (as stated): for every positive integer hz, the divider sample_rate(hz)
\* writes is round(8000/hz) - 1 clamped to 0..255.
C15_DividerRounded ==
    RateWritten => WrittenDivider = Clamp(Round(8000, call.arg.val[1]) - 1)

\* C15 (amended): for every positive integer hz, the divider sample_rate(hz)
\* writes is floor(8000/hz) - 1 clamped to 0..255.
C15_DividerTruncated ==
    RateWritten => WrittenDivider = Clamp((8000 \div call.arg.val[1]) - 1)

\* A request the clamp at 255 and one the clamp at 0 applies to, and one
\* where the rounded and the truncated dividers differ.
C15_Witness ==
    /\ RateWritten /\ call.arg = PyInt(35)
    /\ WrittenDivider = 227
    /\ Clamp(Round(8000, 35) - 1) = 228
    /\ rate_div(20) = 255 /\ rate_div(8100) = 0

\* The call set the rate and read it back.
RateReturned ==
    /\ RateWritten /\ AllOk /\ ret.tag = "float"
    /\ call.arg.val[1] \in 31..8000

\* C16 (as stated): for a request of 31..8000 Hz on a bus that does not
\* fail, the rate returned, 8000/(divider + 1), is at most the request, and
\* a larger request never returns a smaller rate.
C16_RateAtMostRequested ==
    RateReturned =>
        /\ ret.val[1] <= call.arg.val[1] * ret.val[2]
        /\ \A h \in (call.arg.val[1] + 1)..8000 : rate_div(h) <= WrittenDivider

\* C16 (amended): for a request of 31..8000 Hz on a bus that does not fail,
\* the rate returned is at least the request, and a larger request never
\* returns a smaller rate.
C16_RateAtLeastRequested ==
    RateReturned =>
        /\ ret.val[1] >= call.arg.val[1] * ret.val[2]
        /\ \A h \in (call.arg.val[1] + 1)..8000 : rate_div(h) <= WrittenDivider

C16_Witness ==
    /\ RateReturned /\ call.arg = PyInt(3000)
    /\ ret = PyFloat(8000, 2)

====
